---- MODULE Spec2Model ----
(***************************************************************************)
(* EventHub reservation engine.                                            *)
(*                                                                         *)
(* The repository holds two implementations of the RSVP engine:            *)
(*   - the in-memory services (EventService / RSVPService) that app.js     *)
(*     serves, whose methods contain no await and so run to completion;    *)
(*   - the Mongo-backed routes (routes/rsvp.js, routes/events.js), whose   *)
(*     handlers run inside session.withTransaction and interleave at       *)
(*     every await.                                                        *)
(* `backend` says which of the two a run of the program uses.              *)
(***************************************************************************)
EXTENDS Integers, Sequences, FiniteSets, TLC

\* ------------------------------------------------------------------ bounds
MaxUsers == 2
MaxCapacity == 1
MaxRsvps == 2
MaxTime == 1
RaceN == 3

\* ------------------------------------------------------- program constants
Admin == 0
Tomorrow == 1
NextWeek == 2
DefaultCapacity1 == 150
DefaultAttendees1 == 23
DefaultCapacity2 == 50
DefaultAttendees2 == 12
FirstNewEventId == 3

\* The services create one event beyond the two defaults: no operation reads
\* or writes two events, so further events repeat the first.
MaxEventId == FirstNewEventId

Users == 1..MaxUsers
EventIds == 1..MaxEventId
\* The routes are run on one Event document and with two handlers in flight;
\* SpecRace runs RaceN handlers at once.
DbEventIds == {1}
Reqs == {1, 2}

VARIABLES
  backend,      \* "memory" (services) or "mongo" (routes)
  now,          \* the clock, new Date() / Date.now()
  events,       \* EventService.events
  nextEventId,  \* EventService.nextEventId
  rsvps,        \* RSVPService.rsvps
  Event,        \* the Event collection
  RSVP,         \* the RSVP collection
  nextOid,      \* the next fresh Event _id
  req           \* the Mongo route handlers in flight

vars == <<backend, now, events, nextEventId, rsvps, Event, RSVP, nextOid, req>>
svcVars == <<events, nextEventId, rsvps>>
dbVars == <<Event, RSVP, nextOid, req>>

\* ------------------------------------------------------------ EventService
initializeDefaultEvents ==
  << [id |-> 1, date |-> Tomorrow, capacity |-> DefaultCapacity1,
      currentAttendees |-> DefaultAttendees1, creator |-> Admin, attendees |-> <<>>],
     [id |-> 2, date |-> NextWeek, capacity |-> DefaultCapacity2,
      currentAttendees |-> DefaultAttendees2, creator |-> Admin, attendees |-> <<>>] >>

\* events.findIndex(e => e.id === parseInt(eventId)); 0 stands for -1
findEventIndex(list, eventId) ==
  IF \E i \in 1..Len(list) : list[i].id = eventId
  THEN CHOOSE i \in 1..Len(list) :
         /\ list[i].id = eventId
         /\ \A j \in 1..(i - 1) : list[j].id # eventId
  ELSE 0

\* ------------------------------------------------------------- RSVPService
\* mutant: an event whose date is this very instant still counts as ahead
isPastStrict(event, t) == event.date < t

isPast(event, t) == event.date <= t

\* mutant: the status is compared with a value no record carries
isActiveForWrongStatus(r, userId, eventId) ==
  r.userId = userId /\ r.eventId = eventId /\ r.status = "active"

isActiveFor(r, userId, eventId) ==
  r.userId = userId /\ r.eventId = eventId /\ r.status = "attending"

\* rsvps.findIndex(... status === 'attending'); 0 stands for -1
findActiveIndex(list, userId, eventId) ==
  IF \E i \in 1..Len(list) : isActiveFor(list[i], userId, eventId)
  THEN CHOOSE i \in 1..Len(list) :
         /\ isActiveFor(list[i], userId, eventId)
         /\ \A j \in 1..(i - 1) : ~isActiveFor(list[j], userId, eventId)
  ELSE 0

\* mutant: the capacity check never reports a full event
isFullNever(event) == FALSE

isFull(event) == event.currentAttendees >= event.capacity

\* null where a list of user ids is expected: it stands apart from every
\* list of user ids, which are never negative
null == <<-1>>

newRsvp(userId, eventId, t) ==
  [id |-> t, userId |-> userId, eventId |-> eventId, status |-> "attending"]

\* mutant: the attendee is listed but the counter is left alone
addAttendeeKeepCount(event, userId) ==
  [event EXCEPT !.attendees = Append(@, userId)]

addAttendee(event, userId) ==
  [event EXCEPT !.currentAttendees = @ + 1, !.attendees = Append(@, userId)]

\* mutant: the attendee is unlisted but the counter is left alone
removeAttendeeKeepCount(event, userId) ==
  [event EXCEPT !.attendees = SelectSeq(@, LAMBDA id : id # userId)]

\* mutant: the counter is decremented but the attendee stays listed
removeAttendeeKeepList(event, userId) ==
  [event EXCEPT !.currentAttendees = @ - 1]

removeAttendee(event, userId) ==
  [event EXCEPT !.currentAttendees = @ - 1,
                !.attendees = SelectSeq(@, LAMBDA id : id # userId)]

\* mutant: a user who cancelled gets the old record back, set to 'attending'
createRSVPReactivating(evs, rs, t, eventId, userId) ==
  LET i == findEventIndex(evs, eventId)
      old == {k \in 1..Len(rs) : /\ rs[k].userId = userId /\ rs[k].eventId = eventId
                                 /\ rs[k].status = "cancelled"} IN
  IF i = 0 THEN
    [events |-> evs, rsvps |-> rs, result |-> "Event not found"]
  ELSE IF isPast(evs[i], t) THEN
    [events |-> evs, rsvps |-> rs, result |-> "Cannot RSVP to past events"]
  ELSE IF findActiveIndex(rs, userId, eventId) # 0 THEN
    [events |-> evs, rsvps |-> rs, result |-> "You have already RSVP'd to this event"]
  ELSE IF isFull(evs[i]) THEN
    [events |-> evs, rsvps |-> rs, result |-> "Event is at full capacity"]
  ELSE
    [events |-> [evs EXCEPT ![i] = addAttendee(@, userId)],
     rsvps |-> IF old # {} THEN [rs EXCEPT ![CHOOSE k \in old : TRUE].status = "attending"]
               ELSE Append(rs, newRsvp(userId, eventId, t)),
     result |-> "RSVP successful"]

\* mutant: the capacity is compared before the existing RSVP is looked up
createRSVPCapacityFirst(evs, rs, t, eventId, userId) ==
  LET i == findEventIndex(evs, eventId) IN
  IF i = 0 THEN
    [events |-> evs, rsvps |-> rs, result |-> "Event not found"]
  ELSE IF isPast(evs[i], t) THEN
    [events |-> evs, rsvps |-> rs, result |-> "Cannot RSVP to past events"]
  ELSE IF isFull(evs[i]) THEN
    [events |-> evs, rsvps |-> rs, result |-> "Event is at full capacity"]
  ELSE IF findActiveIndex(rs, userId, eventId) # 0 THEN
    [events |-> evs, rsvps |-> rs, result |-> "You have already RSVP'd to this event"]
  ELSE
    [events |-> [evs EXCEPT ![i] = addAttendee(@, userId)],
     rsvps |-> Append(rs, newRsvp(userId, eventId, t)),
     result |-> "RSVP successful"]

\* RSVPService.createRSVP on the events evs and the RSVPs rs at time t: the
\* state it leaves and the value it returns
createRSVPIn(evs, rs, t, eventId, userId) ==
  LET i == findEventIndex(evs, eventId) IN
  IF i = 0 THEN
    [events |-> evs, rsvps |-> rs, result |-> "Event not found"]
  ELSE IF isPast(evs[i], t) THEN
    [events |-> evs, rsvps |-> rs, result |-> "Cannot RSVP to past events"]
  ELSE IF findActiveIndex(rs, userId, eventId) # 0 THEN
    [events |-> evs, rsvps |-> rs, result |-> "You have already RSVP'd to this event"]
  ELSE IF isFull(evs[i]) THEN
    [events |-> evs, rsvps |-> rs, result |-> "Event is at full capacity"]
  ELSE IF evs[i].attendees = null THEN
    \* originalEvent.attendees.push throws after the RSVP is pushed and the
    \* counter incremented; the catch block returns
    [events |-> [evs EXCEPT ![i].currentAttendees = @ + 1],
     rsvps |-> Append(rs, newRsvp(userId, eventId, t)),
     result |-> "Failed to process RSVP"]
  ELSE
    [events |-> [evs EXCEPT ![i] = addAttendee(@, userId)],
     rsvps |-> Append(rs, newRsvp(userId, eventId, t)),
     result |-> "RSVP successful"]

createRSVP(eventId, userId) == createRSVPIn(events, rsvps, now, eventId, userId)

\* RSVPService.cancelRSVP: the state it leaves and the value it returns
cancelRSVPIn(evs, rs, eventId, userId) ==
  LET k == findActiveIndex(rs, userId, eventId)
      i == findEventIndex(evs, eventId) IN
  IF k = 0 THEN
    [events |-> evs, rsvps |-> rs, result |-> "No active RSVP found for this event"]
  ELSE IF i # 0 /\ evs[i].attendees = null THEN
    \* event.attendees.filter throws after the status is set and the counter
    \* decremented; the catch block returns
    [events |-> [evs EXCEPT ![i].currentAttendees = @ - 1],
     rsvps |-> [rs EXCEPT ![k].status = "cancelled"],
     result |-> "Failed to cancel RSVP"]
  ELSE
    [events |-> IF i # 0 THEN [evs EXCEPT ![i] = removeAttendee(@, userId)] ELSE evs,
     rsvps |-> [rs EXCEPT ![k].status = "cancelled"],
     result |-> "RSVP cancelled successfully"]

cancelRSVP(eventId, userId) == cancelRSVPIn(events, rsvps, eventId, userId)

\* mutant: the lookup leaves the status out
checkRSVPStatusAnyStatus(eventId, userId) ==
  LET found == {k \in 1..Len(rsvps) : rsvps[k].userId = userId /\ rsvps[k].eventId = eventId} IN
  [hasRSVP |-> found # {},
   rsvp |-> IF found # {} THEN <<rsvps[CHOOSE k \in found : \A j \in found : k <= j]>> ELSE <<>>]

\* RSVPService.checkRSVPStatus: the reply; rsvp holds the record found, or
\* nothing for null
checkRSVPStatus(eventId, userId) ==
  LET k == findActiveIndex(rsvps, userId, eventId) IN
  [hasRSVP |-> k # 0, rsvp |-> IF k # 0 THEN <<rsvps[k]>> ELSE <<>>]

\* mutant: the filter leaves the status out
getUserRSVPsAnyStatus(userId) ==
  LET userRsvps == SelectSeq(rsvps, LAMBDA r : r.userId = userId)
      found == [k \in 1..Len(userRsvps) |-> findEventIndex(events, userRsvps[k].eventId)]
      kept == SelectSeq(found, LAMBDA i : i # 0) IN
  [k \in 1..Len(kept) |-> events[kept[k]]]

\* RSVPService.getUserRSVPs: the events of the user's 'attending' RSVPs, in
\* the order of the RSVPs; an RSVP whose event is gone yields no entry
getUserRSVPs(userId) ==
  LET userRsvps == SelectSeq(rsvps, LAMBDA r : r.userId = userId /\ r.status = "attending")
      found == [k \in 1..Len(userRsvps) |-> findEventIndex(events, userRsvps[k].eventId)]
      kept == SelectSeq(found, LAMBDA i : i # 0) IN
  [k \in 1..Len(kept) |-> events[kept[k]]]

\* POST /api/rsvp/:eventId
SvcCreateRSVP(eventId, userId) ==
  /\ backend = "memory"
  /\ LET out == createRSVP(eventId, userId) IN
       /\ Len(out.rsvps) <= MaxRsvps
       /\ events' = out.events
       /\ rsvps' = out.rsvps
  /\ UNCHANGED <<backend, now, nextEventId, dbVars>>

\* DELETE /api/rsvp/:eventId
SvcCancelRSVP(eventId, userId) ==
  /\ backend = "memory"
  /\ LET out == cancelRSVP(eventId, userId) IN
       /\ events' = out.events
       /\ rsvps' = out.rsvps
  /\ UNCHANGED <<backend, now, nextEventId, dbVars>>

\* EventService.createEvent with data that passes Validators.validateEventData
SvcCreateEvent(userId, capacity, date) ==
  /\ backend = "memory"
  /\ nextEventId <= MaxEventId
  /\ date > now
  /\ events' = Append(events,
       [id |-> nextEventId, date |-> date, capacity |-> capacity,
        currentAttendees |-> 0, creator |-> userId, attendees |-> <<>>])
  /\ nextEventId' = nextEventId + 1
  /\ UNCHANGED <<backend, now, rsvps, dbVars>>

\* the clock advances
Tick ==
  /\ now < MaxTime
  /\ now' = now + 1
  /\ UNCHANGED <<backend, svcVars, dbVars>>

\* ------------------------------------------- EventService: update, delete
\* the body of a PUT: the keys it carries and their values (0 where absent)
noUpdate == [keys |-> {}, capacity |-> 0, currentAttendees |-> 0, attendees |-> <<>>]

setCapacity(c) == [noUpdate EXCEPT !.keys = {"capacity"}, !.capacity = c]

setAttendees(n) == [noUpdate EXCEPT !.keys = {"currentAttendees"}, !.currentAttendees = n]

setAttendeeList(a) == [noUpdate EXCEPT !.keys = {"attendees"}, !.attendees = a]

\* updateData.capacity && updateData.capacity < event.currentAttendees
reducesBelowAttendees(event, updateData) ==
  /\ "capacity" \in updateData.keys
  /\ updateData.capacity # 0
  /\ updateData.capacity < event.currentAttendees

\* mutant: no key of the body is written
assignNothing(event, updateData) == event

\* Object.keys(updateData).forEach(key => event[key] = updateData[key])
assign(event, updateData) ==
  [event EXCEPT
     !.capacity = IF "capacity" \in updateData.keys THEN updateData.capacity ELSE @,
     !.currentAttendees = IF "currentAttendees" \in updateData.keys
                          THEN updateData.currentAttendees ELSE @,
     !.attendees = IF "attendees" \in updateData.keys THEN updateData.attendees ELSE @]

\* mutant: the creator is not compared with the caller
updateEventByAnyone(eventId, updateData, userId) ==
  LET i == findEventIndex(events, eventId) IN
  IF i = 0 THEN [events |-> events, result |-> "Event not found"]
  ELSE IF reducesBelowAttendees(events[i], updateData)
    THEN [events |-> events, result |-> "Cannot reduce capacity below current attendees"]
  ELSE [events |-> [events EXCEPT ![i] = assign(@, updateData)],
        result |-> "Event updated successfully"]

\* EventService.updateEvent: the events it leaves and the value it returns
updateEvent(eventId, updateData, userId) ==
  LET i == findEventIndex(events, eventId) IN
  IF i = 0 THEN [events |-> events, result |-> "Event not found"]
  ELSE IF events[i].creator # userId
    THEN [events |-> events, result |-> "Not authorized to update this event"]
  ELSE IF reducesBelowAttendees(events[i], updateData)
    THEN [events |-> events, result |-> "Cannot reduce capacity below current attendees"]
  ELSE [events |-> [events EXCEPT ![i] = assign(@, updateData)],
        result |-> "Event updated successfully"]

\* events.splice(eventIndex, 1)
splice(list, i) == SubSeq(list, 1, i - 1) \o SubSeq(list, i + 1, Len(list))

\* EventService.deleteEvent
deleteEvent(eventId, userId) ==
  LET i == findEventIndex(events, eventId) IN
  IF i = 0 THEN [events |-> events, result |-> "Event not found"]
  ELSE IF events[i].creator # userId
    THEN [events |-> events, result |-> "Not authorized to delete this event"]
  ELSE [events |-> splice(events, i), result |-> "Event deleted successfully"]

\* PUT /api/events/:id
SvcUpdateEvent(eventId, updateData, userId) ==
  /\ backend = "memory"
  /\ events' = updateEvent(eventId, updateData, userId).events
  /\ UNCHANGED <<backend, now, nextEventId, rsvps, dbVars>>

\* DELETE /api/events/:id
SvcDeleteEvent(eventId, userId) ==
  /\ backend = "memory"
  /\ events' = deleteEvent(eventId, userId).events
  /\ UNCHANGED <<backend, now, nextEventId, rsvps, dbVars>>

\* ------------------------------------------------- Mongo-backed routes
\* A handler in flight: the request, where its transaction stands, and the
\* response once sent.  staleEvent / staleRsvp: a write committed after this
\* transaction's snapshot changed the Event document / the RSVP document of
\* (user, event); a write to it now fails with WriteConflict.
idle == [op |-> "none", user |-> 0, event |-> 0, pc |-> "idle", status |-> 0,
         message |-> "", staleEvent |-> FALSE, staleRsvp |-> FALSE,
         update |-> noUpdate]

request(op, user, event) == [idle EXCEPT !.op = op, !.user = user, !.event = event,
                                         !.pc = "begin"]

\* the response is sent; an aborted transaction leaves no write behind
respond(q, status, message) ==
  [q EXCEPT !.pc = "done", !.status = status, !.message = message,
            !.staleEvent = FALSE, !.staleRsvp = FALSE, !.update = noUpdate]

\* Event.findById; 0 stands for null
findById(coll, id) ==
  IF \E i \in 1..Len(coll) : coll[i].id = id
  THEN CHOOSE i \in 1..Len(coll) : coll[i].id = id
  ELSE 0

\* mutant: the filter leaves the status out
isAttendingAnyStatus(d, user, event) ==
  d.user = user /\ d.event = event

\* mutant: the filter asks for a status no document carries
isAttendingWrongStatus(d, user, event) ==
  d.user = user /\ d.event = event /\ d.status = "active"

isAttending(d, user, event) ==
  d.user = user /\ d.event = event /\ d.status = "attending"

\* RSVP.findOne({user, event, status: 'attending'}); 0 stands for null
findOneAttending(coll, user, event) ==
  IF \E i \in 1..Len(coll) : isAttending(coll[i], user, event)
  THEN CHOOSE i \in 1..Len(coll) : isAttending(coll[i], user, event)
  ELSE 0

\* rsvpSchema.index({ user: 1, event: 1 }, { unique: true })
violatesUniqueIndex(coll, user, event) ==
  \E i \in 1..Len(coll) : coll[i].user = user /\ coll[i].event = event

\* mutant: the capacity check lets one more in
atCapacityOffByOne(event) == event.currentAttendees > event.capacity

atCapacity(event) == event.currentAttendees >= event.capacity

\* The open transactions: the snapshot is taken by the first read.
inTransaction(q) == q.pc \in {"save", "update", "commit"}

\* uncommitted writes a transaction holds
holdsRsvp(q, user, event) ==
  q.pc \in {"update", "commit"} /\ q.user = user /\ q.event = event

\* mutant: the update locks the collection, not the document
holdsEventAnyDocument(q, event) ==
  q.pc = "commit" /\ findById(Event, event) # 0

holdsEvent(q, event) ==
  q.pc = "commit" /\ q.event = event /\ findById(Event, event) # 0

\* MongoDB fails a transaction's write with WriteConflict when the document
\* changed after the snapshot or another transaction holds a write to it.
rsvpWriteConflict(r) ==
  \/ req[r].staleRsvp
  \/ \E q \in DOMAIN req \ {r} : holdsRsvp(req[q], req[r].user, req[r].event)

\* mutant: the write waits where it stands for the conflict to go away
retryInPlace(q) == q

\* mutant: the update is sent without the session, outside the transaction
eventUpdateOutsideSession(r) == FALSE

eventWriteConflict(r) ==
  \/ req[r].staleEvent
  \/ \E q \in DOMAIN req \ {r} : holdsEvent(req[q], req[r].event)

\* session.withTransaction runs the callback again on a transient error
retry(q) == [q EXCEPT !.pc = "begin", !.staleEvent = FALSE, !.staleRsvp = FALSE]

\* a commit makes the snapshots of the other open transactions stale
afterCommit(r, wroteEvent) ==
  [q \in DOMAIN req |->
     IF q = r THEN respond(req[r], IF req[r].op = "post" THEN 201 ELSE 200,
                           IF req[r].op = "post" THEN "RSVP successful"
                           ELSE "RSVP cancelled successfully")
     ELSE IF inTransaction(req[q]) /\ req[q].event = req[r].event
     THEN [req[q] EXCEPT !.staleEvent = @ \/ wroteEvent,
                         !.staleRsvp = @ \/ (req[q].user = req[r].user)]
     ELSE req[q]]

incAttendees(doc, user) ==
  [doc EXCEPT !.currentAttendees = @ + 1, !.attendees = @ \cup {user}]

decAttendees(doc, user) ==
  [doc EXCEPT !.currentAttendees = @ - 1, !.attendees = @ \ {user}]

postsInFlight == {q \in DOMAIN req : req[q].op = "post" /\ req[q].pc \notin {"idle", "done"}}

\* a request reaches a route of routes/rsvp.js
Arrive(r, op, user, event) ==
  /\ backend = "mongo"
  /\ req[r].pc \in {"idle", "done"}
  /\ op = "post" => Len(RSVP) + Cardinality(postsInFlight) < MaxRsvps
  /\ req' = [req EXCEPT ![r] = request(op, user, event)]
  /\ UNCHANGED <<backend, now, svcVars, Event, RSVP, nextOid>>

\* router.post('/:eventId'): the reads and checks of the transaction body
PostBegin(r) ==
  /\ backend = "mongo"
  /\ req[r].op = "post" /\ req[r].pc = "begin"
  /\ LET i == findById(Event, req[r].event) IN
     req' = [req EXCEPT ![r] =
       IF i = 0 THEN respond(@, 404, "Event not found")
       ELSE IF isPast(Event[i], now) THEN respond(@, 400, "Cannot RSVP to past events")
       ELSE IF findOneAttending(RSVP, @.user, @.event) # 0
         THEN respond(@, 400, "You have already RSVP'd to this event")
       ELSE IF atCapacity(Event[i]) THEN respond(@, 400, "Event is at full capacity")
       ELSE [@ EXCEPT !.pc = "save"]]
  /\ UNCHANGED <<backend, now, svcVars, Event, RSVP, nextOid>>

\* await rsvp.save({ session })
PostSave(r) ==
  /\ backend = "mongo"
  /\ req[r].op = "post" /\ req[r].pc = "save"
  /\ req' = [req EXCEPT ![r] =
       IF rsvpWriteConflict(r) THEN retry(@)
       ELSE IF violatesUniqueIndex(RSVP, @.user, @.event)
         THEN respond(@, 500, "Server error while processing RSVP")
       ELSE [@ EXCEPT !.pc = "update"]]
  /\ UNCHANGED <<backend, now, svcVars, Event, RSVP, nextOid>>

\* await Event.findByIdAndUpdate(..., { session })
TxUpdate(r) ==
  /\ backend = "mongo"
  /\ req[r].pc = "update"
  /\ req' = [req EXCEPT ![r] =
       IF eventWriteConflict(r) THEN retry(@)
       ELSE [@ EXCEPT !.pc = "commit"]]
  /\ UNCHANGED <<backend, now, svcVars, Event, RSVP, nextOid>>

\* the transaction of router.post commits
PostCommit(r) ==
  /\ backend = "mongo"
  /\ req[r].op = "post" /\ req[r].pc = "commit"
  /\ LET i == findById(Event, req[r].event) IN
     /\ RSVP' = Append(RSVP, [user |-> req[r].user, event |-> req[r].event,
                              status |-> "attending"])
     /\ Event' = IF i # 0 THEN [Event EXCEPT ![i] = incAttendees(@, req[r].user)]
                 ELSE Event
     /\ req' = afterCommit(r, i # 0)
  /\ UNCHANGED <<backend, now, svcVars, nextOid>>

\* router.delete('/:eventId'): RSVP.findOne in the transaction body
DeleteBegin(r) ==
  /\ backend = "mongo"
  /\ req[r].op = "delete" /\ req[r].pc = "begin"
  /\ req' = [req EXCEPT ![r] =
       IF findOneAttending(RSVP, @.user, @.event) = 0
       THEN respond(@, 404, "No active RSVP found for this event")
       ELSE [@ EXCEPT !.pc = "save"]]
  /\ UNCHANGED <<backend, now, svcVars, Event, RSVP, nextOid>>

\* rsvp.status = 'cancelled'; await rsvp.save({ session })
DeleteSave(r) ==
  /\ backend = "mongo"
  /\ req[r].op = "delete" /\ req[r].pc = "save"
  /\ req' = [req EXCEPT ![r] =
       IF rsvpWriteConflict(r) THEN retry(@) ELSE [@ EXCEPT !.pc = "update"]]
  /\ UNCHANGED <<backend, now, svcVars, Event, RSVP, nextOid>>

\* the transaction of router.delete commits
DeleteCommit(r) ==
  /\ backend = "mongo"
  /\ req[r].op = "delete" /\ req[r].pc = "commit"
  /\ LET i == findById(Event, req[r].event)
         k == findOneAttending(RSVP, req[r].user, req[r].event) IN
     /\ RSVP' = IF k # 0 THEN [RSVP EXCEPT ![k].status = "cancelled"] ELSE RSVP
     /\ Event' = IF i # 0 THEN [Event EXCEPT ![i] = decAttendees(@, req[r].user)]
                 ELSE Event
     /\ req' = afterCommit(r, i # 0)
  /\ UNCHANGED <<backend, now, svcVars, nextOid>>

\* routes/events.js router.post('/'): a valid event is saved
DbCreateEvent(user, capacity, date) ==
  /\ backend = "mongo"
  /\ nextOid \in DbEventIds
  /\ date > now
  /\ Event' = Append(Event,
       [id |-> nextOid, date |-> date, capacity |-> capacity,
        currentAttendees |-> 0, creator |-> user, attendees |-> {}])
  /\ nextOid' = nextOid + 1
  /\ UNCHANGED <<backend, now, svcVars, RSVP, req>>

\* router.get('/:eventId/status'): RSVP.findOne outside any session reads
\* the committed documents
statusRoute(user, event) ==
  LET k == findOneAttending(RSVP, user, event) IN
  [hasRSVP |-> k # 0, rsvp |-> IF k # 0 THEN <<RSVP[k]>> ELSE <<>>]

\* router.get('/user/attending'): RSVP.find, populate('event'), newest first,
\* entries whose event is null dropped
attendingRoute(user) ==
  LET mine == SelectSeq(RSVP, LAMBDA d : d.user = user /\ d.status = "attending")
      newestFirst == [k \in 1..Len(mine) |-> mine[Len(mine) + 1 - k]]
      found == [k \in 1..Len(mine) |-> findById(Event, newestFirst[k].event)]
      kept == SelectSeq(found, LAMBDA i : i # 0) IN
  [k \in 1..Len(kept) |-> Event[kept[k]]]

\* ------------------------------------------ routes/events.js: PUT, DELETE
\* a write outside a transaction: the documents it changed are stale for
\* the open transactions on that event
afterWrite(r, answer, wroteEvent, wroteRsvps) ==
  [q \in DOMAIN req |->
     IF q = r THEN answer
     ELSE IF inTransaction(req[q]) /\ req[q].event = req[r].event
     THEN [req[q] EXCEPT !.staleEvent = @ \/ wroteEvent,
                         !.staleRsvp = @ \/ (wroteRsvps /\ req[q].op = "delete")]
     ELSE req[q]]

\* a PUT /api/events/:id with a body the route's validators let through
ArrivePut(r, user, event, updateData) ==
  /\ backend = "mongo"
  /\ req[r].pc \in {"idle", "done"}
  /\ "capacity" \in updateData.keys => updateData.capacity >= 1
  /\ req' = [req EXCEPT ![r] = [request("put", user, event) EXCEPT !.update = updateData]]
  /\ UNCHANGED <<backend, now, svcVars, Event, RSVP, nextOid>>

\* router.put('/:id'): Event.findById and the checks on what it read
PutBegin(r) ==
  /\ backend = "mongo"
  /\ req[r].op = "put" /\ req[r].pc = "begin"
  /\ LET i == findById(Event, req[r].event) IN
     req' = [req EXCEPT ![r] =
       IF i = 0 THEN respond(@, 404, "Event not found")
       ELSE IF Event[i].creator # @.user
         THEN respond(@, 403, "Not authorized to update this event")
       ELSE IF "capacity" \in @.update.keys /\ @.update.capacity < Event[i].currentAttendees
         THEN respond(@, 400, "Cannot reduce capacity below current attendees")
       ELSE [@ EXCEPT !.pc = "assign"]]
  /\ UNCHANGED <<backend, now, svcVars, Event, RSVP, nextOid>>

\* Object.assign(event, updates); await event.save(): the paths of the body
\* are written; the schema refuses currentAttendees below 0; the write waits
\* for a transaction that holds the document
PutSave(r) ==
  /\ backend = "mongo"
  /\ req[r].op = "put" /\ req[r].pc = "assign"
  /\ \A q \in DOMAIN req \ {r} : ~holdsEvent(req[q], req[r].event)
  /\ LET i == findById(Event, req[r].event)
         refused == \/ i = 0
                    \/ /\ "currentAttendees" \in req[r].update.keys
                       /\ req[r].update.currentAttendees < 0 IN
     IF refused
     THEN /\ req' = [req EXCEPT ![r] = respond(@, 500, "Server error while updating event")]
          /\ Event' = Event
     ELSE /\ Event' = [Event EXCEPT ![i] = assign(@, req[r].update)]
          /\ req' = afterWrite(r, respond(req[r], 200, "Event updated successfully"),
                               TRUE, FALSE)
  /\ UNCHANGED <<backend, now, svcVars, RSVP, nextOid>>

\* router.delete('/:id'): Event.findById and the creator check
RemoveBegin(r) ==
  /\ backend = "mongo"
  /\ req[r].op = "remove" /\ req[r].pc = "begin"
  /\ LET i == findById(Event, req[r].event) IN
     req' = [req EXCEPT ![r] =
       IF i = 0 THEN respond(@, 404, "Event not found")
       ELSE IF Event[i].creator # @.user
         THEN respond(@, 403, "Not authorized to delete this event")
       ELSE [@ EXCEPT !.pc = "deleteMany"]]
  /\ UNCHANGED <<backend, now, svcVars, Event, RSVP, nextOid>>

\* await RSVP.deleteMany({ event: event._id })
RemoveRsvps(r) ==
  /\ backend = "mongo"
  /\ req[r].op = "remove" /\ req[r].pc = "deleteMany"
  /\ \A q \in DOMAIN req \ {r} :
       ~(req[q].op = "delete" /\ holdsRsvp(req[q], req[q].user, req[r].event))
  /\ RSVP' = SelectSeq(RSVP, LAMBDA d : d.event # req[r].event)
  /\ req' = afterWrite(r, [req[r] EXCEPT !.pc = "deleteEvent"], FALSE, TRUE)
  /\ UNCHANGED <<backend, now, svcVars, Event, nextOid>>

\* await Event.findByIdAndDelete(req.params.id)
RemoveEvent(r) ==
  /\ backend = "mongo"
  /\ req[r].op = "remove" /\ req[r].pc = "deleteEvent"
  /\ \A q \in DOMAIN req \ {r} : ~holdsEvent(req[q], req[r].event)
  /\ Event' = SelectSeq(Event, LAMBDA e : e.id # req[r].event)
  /\ req' = afterWrite(r, respond(req[r], 200, "Event deleted successfully"), TRUE, FALSE)
  /\ UNCHANGED <<backend, now, svcVars, RSVP, nextOid>>

\* ------------------------------------------------------------ the program
Init ==
  /\ backend \in {"memory", "mongo"}
  /\ now = 0
  /\ events = IF backend = "memory" THEN initializeDefaultEvents ELSE <<>>
  /\ nextEventId = FirstNewEventId
  /\ rsvps = <<>>
  /\ Event = <<>>
  /\ RSVP = <<>>
  /\ nextOid = 1
  /\ req = [r \in Reqs |-> idle]

Next ==
  \/ Tick
  \/ \E e \in EventIds, u \in Users : SvcCreateRSVP(e, u)
  \/ \E e \in EventIds, u \in Users : SvcCancelRSVP(e, u)
  \/ \E u \in Users, c \in 1..MaxCapacity, d \in 1..(MaxTime + 1) : SvcCreateEvent(u, c, d)
  \/ \E u \in Users, c \in 1..MaxCapacity, d \in 1..(MaxTime + 1) : DbCreateEvent(u, c, d)
  \/ \E r \in Reqs, op \in {"post", "delete"}, u \in Users, e \in DbEventIds :
       Arrive(r, op, u, e)
  \/ \E r \in DOMAIN req : PostBegin(r)
  \/ \E r \in DOMAIN req : PostSave(r)
  \/ \E r \in DOMAIN req : TxUpdate(r)
  \/ \E r \in DOMAIN req : PostCommit(r)
  \/ \E r \in DOMAIN req : DeleteBegin(r)
  \/ \E r \in DOMAIN req : DeleteSave(r)
  \/ \E r \in DOMAIN req : DeleteCommit(r)

Spec == Init /\ [][Next]_vars

\* the program with the routes that update and delete events; the clock
\* stands still and every event lies ahead; one handler serves the RSVP
\* routes, the other the event routes
Updates ==
  {setCapacity(c) : c \in 1..(MaxCapacity + 1)} \cup {setAttendees(n) : n \in {-1, 0}}

NextManage ==
  \/ \E e \in EventIds, u \in Users : SvcCreateRSVP(e, u)
  \/ \E e \in EventIds, u \in Users : SvcCancelRSVP(e, u)
  \/ \E u \in Users, c \in 1..MaxCapacity : SvcCreateEvent(u, c, MaxTime + 1)
  \/ \E e \in EventIds, d \in Updates, u \in Users : SvcUpdateEvent(e, d, u)
  \/ \E e \in EventIds, u \in Users : SvcDeleteEvent(e, u)
  \/ \E u \in Users, c \in 1..MaxCapacity : DbCreateEvent(u, c, MaxTime + 1)
  \/ \E op \in {"post", "delete"}, u \in Users, e \in DbEventIds : Arrive(1, op, u, e)
  \/ \E u \in Users, e \in DbEventIds : Arrive(2, "remove", u, e)
  \/ \E u \in Users, e \in DbEventIds, d \in Updates : ArrivePut(2, u, e, d)
  \/ \E r \in DOMAIN req : PostBegin(r)
  \/ \E r \in DOMAIN req : PostSave(r)
  \/ \E r \in DOMAIN req : TxUpdate(r)
  \/ \E r \in DOMAIN req : PostCommit(r)
  \/ \E r \in DOMAIN req : DeleteBegin(r)
  \/ \E r \in DOMAIN req : DeleteSave(r)
  \/ \E r \in DOMAIN req : DeleteCommit(r)
  \/ \E r \in DOMAIN req : PutBegin(r)
  \/ \E r \in DOMAIN req : PutSave(r)
  \/ \E r \in DOMAIN req : RemoveBegin(r)
  \/ \E r \in DOMAIN req : RemoveRsvps(r)
  \/ \E r \in DOMAIN req : RemoveEvent(r)

SpecManage == Init /\ [][NextManage]_vars

\* ------------------------------------------------- concurrent requests
\* app.js: the status the service-backed route answers with
\* the error texts of RSVPService, word by word
words(message) ==
  CASE message = "Event not found" -> <<"Event", "not", "found">>
    [] message = "Cannot RSVP to past events" -> <<"Cannot", "RSVP", "to", "past", "events">>
    [] message = "You have already RSVP'd to this event"
         -> <<"You", "have", "already", "RSVP'd", "to", "this", "event">>
    [] message = "Event is at full capacity" -> <<"Event", "is", "at", "full", "capacity">>
    [] message = "No active RSVP found for this event"
         -> <<"No", "active", "RSVP", "found", "for", "this", "event">>
    [] OTHER -> <<>>

\* message.includes(needle), to the word
includes(message, needle) ==
  \E i \in 1..Len(words(message)) :
    /\ i + Len(needle) - 1 <= Len(words(message))
    /\ SubSeq(words(message), i, i + Len(needle) - 1) = needle

statusOf(result) ==
  IF result = "RSVP successful" THEN 201
  ELSE IF result = "RSVP cancelled successfully" THEN 200
  ELSE IF includes(result, <<"not", "found">>) THEN 404
  ELSE 400

\* app.delete('/api/rsvp/:eventId'): what the route answers
cancelRoute(eventId, userId) ==
  [status |-> statusOf(cancelRSVP(eventId, userId).result),
   message |-> cancelRSVP(eventId, userId).result]

\* app.post('/api/rsvp/:eventId'): a pending request is served; createRSVP
\* holds no await, so it runs to completion within the step
SvcServe(r) ==
  /\ backend = "memory"
  /\ req[r].op = "post" /\ req[r].pc = "begin"
  /\ LET out == createRSVP(req[r].event, req[r].user) IN
       /\ events' = out.events
       /\ rsvps' = out.rsvps
       /\ req' = [req EXCEPT ![r] = respond(@, statusOf(out.result), out.result)]
  /\ UNCHANGED <<backend, now, nextEventId, Event, RSVP, nextOid>>

raceEvent(id, capacity, attendees) ==
  [id |-> id, date |-> MaxTime + 1, capacity |-> capacity, currentAttendees |-> 0,
   creator |-> 1, attendees |-> attendees]

\* n requests to RSVP to one open, empty event of the given capacity are in
\* flight; with sameActor the first two come from one user
raceRequests(n, sameActor, event) ==
  [r \in 1..RaceN |->
     IF r <= n THEN request("post", IF sameActor /\ r = 2 THEN 1 ELSE r, event)
     ELSE idle]

RaceInit ==
  /\ backend \in {"memory", "mongo"}
  /\ now = 0
  /\ rsvps = <<>>
  /\ RSVP = <<>>
  /\ \E capacity \in 1..RaceN, n \in 2..RaceN, sameActor \in BOOLEAN :
       IF backend = "memory"
       THEN /\ events = Append(initializeDefaultEvents,
                               raceEvent(FirstNewEventId, capacity, <<>>))
            /\ nextEventId = FirstNewEventId + 1
            /\ Event = <<>>
            /\ nextOid = 1
            /\ req = raceRequests(n, sameActor, FirstNewEventId)
       ELSE /\ events = <<>>
            /\ nextEventId = FirstNewEventId
            /\ Event = <<raceEvent(1, capacity, {})>>
            /\ nextOid = 2
            /\ req = raceRequests(n, sameActor, 1)

RaceNext ==
  \/ \E r \in DOMAIN req : SvcServe(r)
  \/ \E r \in DOMAIN req : PostBegin(r)
  \/ \E r \in DOMAIN req : PostSave(r)
  \/ \E r \in DOMAIN req : TxUpdate(r)
  \/ \E r \in DOMAIN req : PostCommit(r)

SpecRace == RaceInit /\ [][RaceNext]_vars

\* ------------------------------------------------- a full event is freed
\* an open event of the given capacity on which users 1..capacity hold an
\* RSVP each: the state after they were admitted one by one
fullEvent(id, capacity, attendees) ==
  [raceEvent(id, capacity, attendees) EXCEPT !.currentAttendees = capacity]

ReuseInit ==
  /\ backend \in {"memory", "mongo"}
  /\ now = 0
  /\ req = [r \in Reqs |-> idle]
  /\ \E capacity \in 1..MaxCapacity :
       IF backend = "memory"
       THEN /\ events = Append(initializeDefaultEvents,
                 fullEvent(FirstNewEventId, capacity, [u \in 1..capacity |-> u]))
            /\ rsvps = [u \in 1..capacity |-> newRsvp(u, FirstNewEventId, 0)]
            /\ nextEventId = FirstNewEventId + 1
            /\ Event = <<>> /\ RSVP = <<>> /\ nextOid = 1
       ELSE /\ events = <<>> /\ rsvps = <<>> /\ nextEventId = FirstNewEventId
            /\ Event = <<fullEvent(1, capacity, 1..capacity)>>
            /\ RSVP = [u \in 1..capacity |-> [user |-> u, event |-> 1, status |-> "attending"]]
            /\ nextOid = 2

ReuseNext ==
  \/ \E e \in EventIds, u \in Users : SvcCreateRSVP(e, u)
  \/ \E e \in EventIds, u \in Users : SvcCancelRSVP(e, u)
  \/ \E r \in Reqs, op \in {"post", "delete"}, u \in Users, e \in DbEventIds :
       Arrive(r, op, u, e)
  \/ \E r \in DOMAIN req : PostBegin(r)
  \/ \E r \in DOMAIN req : PostSave(r)
  \/ \E r \in DOMAIN req : TxUpdate(r)
  \/ \E r \in DOMAIN req : PostCommit(r)
  \/ \E r \in DOMAIN req : DeleteBegin(r)
  \/ \E r \in DOMAIN req : DeleteSave(r)
  \/ \E r \in DOMAIN req : DeleteCommit(r)

SpecReuse == ReuseInit /\ [][ReuseNext]_vars

\* every step of a handler in flight is an awaited call that completes: the
\* event loop resumes the handler
Fairness ==
  \A r \in Reqs :
    /\ WF_vars(PostBegin(r)) /\ WF_vars(PostSave(r)) /\ WF_vars(TxUpdate(r))
    /\ WF_vars(PostCommit(r)) /\ WF_vars(DeleteBegin(r)) /\ WF_vars(DeleteSave(r))
    /\ WF_vars(DeleteCommit(r))

SpecReuseLive == SpecReuse /\ Fairness

\* two open events; of the routes, each request slot addresses its own
\* event, so that handlers on different events are in flight together
IsoInit ==
  /\ backend \in {"memory", "mongo"}
  /\ now = 0
  /\ events = IF backend = "memory" THEN initializeDefaultEvents ELSE <<>>
  /\ nextEventId = FirstNewEventId
  /\ rsvps = <<>>
  /\ RSVP = <<>>
  /\ req = [r \in Reqs |-> idle]
  /\ nextOid = Cardinality(Reqs) + 1
  /\ \E capacity \in 1..MaxCapacity :
       Event = IF backend = "mongo" THEN [r \in Reqs |-> raceEvent(r, capacity, {})]
               ELSE <<>>

IsoNext ==
  \/ \E e \in EventIds, u \in Users : SvcCreateRSVP(e, u)
  \/ \E e \in EventIds, u \in Users : SvcCancelRSVP(e, u)
  \/ \E r \in Reqs, op \in {"post", "delete"}, u \in Users : Arrive(r, op, u, r)
  \/ \E r \in DOMAIN req : PostBegin(r)
  \/ \E r \in DOMAIN req : PostSave(r)
  \/ \E r \in DOMAIN req : TxUpdate(r)
  \/ \E r \in DOMAIN req : PostCommit(r)
  \/ \E r \in DOMAIN req : DeleteBegin(r)
  \/ \E r \in DOMAIN req : DeleteSave(r)
  \/ \E r \in DOMAIN req : DeleteCommit(r)

SpecIso == IsoInit /\ [][IsoNext]_vars

\* the program with an update whose body sets the attendees key to null
NextFault ==
  \/ Next
  \/ \E e \in EventIds, u \in Users : SvcUpdateEvent(e, setAttendeeList(null), u)

SpecFault == Init /\ [][NextFault]_vars

\* ------------------------------------------------------------ the claims
\* what the claims speak of, stated on the records themselves
SvcActive(u, e) ==
  {i \in 1..Len(rsvps) : /\ rsvps[i].userId = u /\ rsvps[i].eventId = e
                         /\ rsvps[i].status = "attending"}

DbActive(u, e) ==
  {i \in 1..Len(RSVP) : /\ RSVP[i].user = u /\ RSVP[i].event = e
                        /\ RSVP[i].status = "attending"}

SvcActiveCount(e) ==
  Cardinality({i \in 1..Len(rsvps) : rsvps[i].eventId = e /\ rsvps[i].status = "attending"})

DbActiveCount(e) ==
  Cardinality({i \in 1..Len(RSVP) : RSVP[i].event = e /\ RSVP[i].status = "attending"})

AnyUser == 1..(IF RaceN > MaxUsers THEN RaceN ELSE MaxUsers)

\* C1: capacity invariant. In every reachable state every event, of the
\* services and of the Event collection, has currentAttendees <= capacity.
C1_CapacityInvariant ==
  /\ \A i \in 1..Len(events) : events[i].currentAttendees <= events[i].capacity
  /\ \A i \in 1..Len(Event) : Event[i].currentAttendees <= Event[i].capacity

\* an event stands at its capacity and a further RSVP was turned away
C1_Witness ==
  /\ backend = "mongo"
  /\ \E i \in 1..Len(Event) : Event[i].currentAttendees = Event[i].capacity
  /\ \E r \in DOMAIN req : req[r].pc = "done" /\ req[r].message = "Event is at full capacity"

\* C2: counter/record agreement. In every state, from the initial one on,
\* every event's currentAttendees equals the number of its 'attending' RSVPs.
C2_CounterMatchesRecords ==
  /\ \A i \in 1..Len(events) : events[i].currentAttendees = SvcActiveCount(events[i].id)
  /\ \A i \in 1..Len(Event) : Event[i].currentAttendees = DbActiveCount(Event[i].id)

\* C3: no duplicate admission. No (user, event) pair ever has two
\* 'attending' RSVP records.
C3_NoDuplicateActive ==
  \A u \in AnyUser, e \in EventIds :
    /\ Cardinality(SvcActive(u, e)) <= 1
    /\ Cardinality(DbActive(u, e)) <= 1

\* a user who holds an RSVP asked again and was refused
C3_Witness ==
  \E r \in DOMAIN req :
    /\ req[r].pc = "done" /\ req[r].message = "You have already RSVP'd to this event"
    /\ DbActive(req[r].user, req[r].event) # {}

\* the requests of a race and the event they are after
racers == {r \in DOMAIN req : req[r].op = "post"}

RaceDone == \A r \in racers : req[r].pc = "done"

raceTarget ==
  IF backend = "memory"
  THEN events[CHOOSE i \in 1..Len(events) : events[i].id = FirstNewEventId]
  ELSE Event[CHOOSE i \in 1..Len(Event) : Event[i].id = 1]

distinctActors == \A r, q \in racers : r # q => req[r].user # req[q].user

admitted == {r \in racers : req[r].pc = "done" /\ req[r].status = 201}

refusedWith(message) == {r \in racers : req[r].pc = "done" /\ req[r].message = message}

\* C4: concurrency correctness. N requests by N distinct users race for an
\* open event with K free places, K < N: when all have been answered, exactly
\* K were admitted, exactly N-K were told 'Event is at full capacity', and
\* currentAttendees equals the capacity.
C4_ExactlyKAdmitted ==
  (RaceDone /\ distinctActors /\ raceTarget.capacity < Cardinality(racers)) =>
    /\ Cardinality(admitted) = raceTarget.capacity
    /\ Cardinality(refusedWith("Event is at full capacity"))
         = Cardinality(racers) - raceTarget.capacity
    /\ raceTarget.currentAttendees = raceTarget.capacity

\* the Mongo routes have answered a race that had more requests than places
C4_Witness ==
  /\ backend = "mongo"
  /\ RaceDone /\ distinctActors
  /\ raceTarget.capacity < Cardinality(racers)
  /\ refusedWith("Event is at full capacity") # {}

\* a request has passed the duplicate check of its (current) run
pastDuplicateCheck(r) == req[r].op = "post" /\ req[r].pc \in {"save", "update", "commit"}

sameActorRace ==
  /\ racers = {1, 2}
  /\ req[1].user = req[2].user
  /\ raceTarget.capacity >= 2

sameActorOutcome ==
  (RaceDone /\ sameActorRace) =>
    /\ Cardinality(admitted) = 1
    /\ Cardinality(refusedWith("You have already RSVP'd to this event")) = 1
    /\ raceTarget.currentAttendees = 1

answered(r) == req[r].pc \notin {"idle", "done"} /\ req'[r].pc = "done"

cancelledBefore(u, e) ==
  \E i \in 1..Len(RSVP) : /\ RSVP[i].user = u /\ RSVP[i].event = e
                          /\ RSVP[i].status = "cancelled"

openWithRoom(e) ==
  \E i \in 1..Len(Event) : /\ Event[i].id = e /\ Event[i].date > now
                           /\ Event[i].currentAttendees < Event[i].capacity

\* RSVPService: cancelRSVP followed by createRSVP of the same user
reReserveInService ==
  \A u \in Users, e \in EventIds :
    LET c == cancelRSVPIn(events, rsvps, e, u)
        k == createRSVPIn(c.events, c.rsvps, now, e, u) IN
    (/\ c.result = "RSVP cancelled successfully"
     /\ \E i \in 1..Len(c.events) : /\ c.events[i].id = e /\ c.events[i].date > now
                                     /\ c.events[i].currentAttendees < c.events[i].capacity)
    =>
     /\ k.result = "RSVP successful"
     /\ Len(k.rsvps) = Len(rsvps) + 1
     /\ k.rsvps[Len(k.rsvps)].userId = u /\ k.rsvps[Len(k.rsvps)].eventId = e
     /\ k.rsvps[Len(k.rsvps)].status = "attending"
     /\ \A j \in SvcActive(u, e) : k.rsvps[j].status = "cancelled"
     /\ \A i \in 1..Len(events) :
          k.events[i].currentAttendees = events[i].currentAttendees

\* routes/rsvp.js: a POST of a user whose RSVP was cancelled, for an event
\* that is open and has room, is answered 201
reReserveInRoutes ==
  \A r \in DOMAIN req :
    (/\ req[r].op = "post" /\ answered(r)
     /\ cancelledBefore(req[r].user, req[r].event)
     /\ DbActive(req[r].user, req[r].event) = {}
     /\ openWithRoom(req[r].event))
    => req'[r].status = 201

\* C6: cancel/re-reserve. After a user's cancel of an RSVP succeeded, an RSVP
\* by the same user for the same event (still open, not full) succeeds and
\* adds a new 'attending' record while the old one stays 'cancelled', and
\* currentAttendees is back at its value before the cancel.
C6_ReReserveSucceeds == []reReserveInService /\ [][reReserveInRoutes]_vars

\* --------------------------------------------------- cancelling nothing
noCancelInService ==
  \A u \in Users, e \in EventIds :
    SvcActive(u, e) = {} =>
      cancelRSVP(e, u) = [events |-> events, rsvps |-> rsvps,
                          result |-> "No active RSVP found for this event"]

\* a DELETE that finds no 'attending' RSVP of the pair is answered 404 in
\* the step that reads, and a step that answers 404 writes nothing
noCancelInRoutes ==
  \A r \in DOMAIN req :
    /\ (/\ req[r].op = "delete" /\ req[r].pc = "begin" /\ req'[r] # req[r]
        /\ DbActive(req[r].user, req[r].event) = {})
       => /\ req'[r].pc = "done" /\ req'[r].status = 404
          /\ req'[r].message = "No active RSVP found for this event"
    /\ (req[r].op = "delete" /\ answered(r) /\ req'[r].status = 404)
       => Event' = Event /\ RSVP' = RSVP

\* C7: idempotent cancellation failure. A cancel for a (user, event) pair
\* with no 'attending' RSVP, never made or already cancelled, answers 'No
\* active RSVP found for this event' (404) and leaves every counter and
\* every RSVP record as it was.
C7_CancelWithoutActive == []noCancelInService /\ [][noCancelInRoutes]_vars

\* a second DELETE after a cancel was answered 404, the counter untouched
C7_Witness ==
  \E r \in DOMAIN req :
    /\ req[r].op = "delete" /\ req[r].pc = "done" /\ req[r].status = 404
    /\ cancelledBefore(req[r].user, req[r].event)
    /\ \E i \in 1..Len(Event) : Event[i].id = req[r].event /\ Event[i].currentAttendees = 0

\* ------------------------------------------------------ status of an RSVP
monotonic(old, new, idOf(_)) ==
  /\ Len(new) >= Len(old)
  /\ \A i \in 1..Len(old) :
       /\ idOf(new[i]) = idOf(old[i])
       /\ \/ new[i].status = old[i].status
          \/ old[i].status = "attending" /\ new[i].status = "cancelled"
  /\ \A i \in (Len(old) + 1)..Len(new) : new[i].status = "attending"

svcPair(r) == <<r.userId, r.eventId>>

dbPair(d) == <<d.user, d.event>>

\* C8: status monotonicity. An RSVP record is created with status
\* 'attending'; a step changes a record's status only from 'attending' to
\* 'cancelled'; no step removes a record or sets a cancelled one back.
C8_StatusMonotonic ==
  [][monotonic(rsvps, rsvps', svcPair) /\ monotonic(RSVP, RSVP', dbPair)]_vars

\* a user cancelled and RSVP'd again: the old record is still cancelled,
\* a new one is attending
C8_Witness ==
  \E i, j \in 1..Len(rsvps) :
    /\ i < j /\ svcPair(rsvps[i]) = svcPair(rsvps[j])
    /\ rsvps[i].status = "cancelled" /\ rsvps[j].status = "attending"

\* ------------------------------------------------- the effect of an RSVP
\* the counters of evs2 are those of evs1 but for event e, which moved by d
countersMoved(evs1, evs2, e, d) ==
  /\ Len(evs2) = Len(evs1)
  /\ \A i \in 1..Len(evs1) :
       /\ evs2[i].id = evs1[i].id
       /\ evs2[i].currentAttendees =
            evs1[i].currentAttendees + (IF evs1[i].id = e THEN d ELSE 0)

createEffectInService ==
  \A u \in Users, e \in EventIds :
    LET out == createRSVP(e, u) IN
    IF out.result = "RSVP successful"
    THEN /\ Len(out.rsvps) = Len(rsvps) + 1
         /\ SubSeq(out.rsvps, 1, Len(rsvps)) = rsvps
         /\ svcPair(out.rsvps[Len(out.rsvps)]) = <<u, e>>
         /\ out.rsvps[Len(out.rsvps)].status = "attending"
         /\ countersMoved(events, out.events, e, 1)
         /\ \E i \in 1..Len(events) : events[i].id = e
    ELSE out.events = events /\ out.rsvps = rsvps

\* the service-backed route stores what createRSVP leaves, nothing else
createStepInService ==
  (backend = "memory" /\ rsvps' # rsvps /\ Len(rsvps') > Len(rsvps)) =>
    \E u \in Users, e \in EventIds :
      /\ createRSVP(e, u).result = "RSVP successful"
      /\ rsvps' = createRSVP(e, u).rsvps /\ events' = createRSVP(e, u).events

createEffectInRoutes ==
  \A r \in DOMAIN req :
    (req[r].op = "post" /\ answered(r)) =>
      IF req'[r].status = 201
      THEN /\ RSVP' = Append(RSVP, [user |-> req[r].user, event |-> req[r].event,
                                    status |-> "attending"])
           /\ countersMoved(Event, Event', req[r].event, 1)
           /\ \E i \in 1..Len(Event) : Event[i].id = req[r].event
      ELSE Event' = Event /\ RSVP' = RSVP

\* a record enters the RSVP collection only with a POST answered 201
createOnlyWhenAnswered ==
  Len(RSVP') > Len(RSVP) =>
    \E r \in DOMAIN req : req[r].op = "post" /\ answered(r) /\ req'[r].status = 201

cancelEffectInService ==
  \A u \in Users, e \in EventIds :
    SvcActive(u, e) # {} =>
      LET out == cancelRSVP(e, u) IN
      /\ out.result = "RSVP cancelled successfully"
      /\ \E k \in SvcActive(u, e) : out.rsvps = [rsvps EXCEPT ![k].status = "cancelled"]
      /\ countersMoved(events, out.events, e, -1)

\* every step moves an event's counter by what it moves the number of the
\* event's 'attending' records: neither is ever seen changed alone
countersFollowRecords ==
  /\ \A i \in 1..Len(events) :
       events'[i].currentAttendees - events[i].currentAttendees
         = SvcActiveCount(events[i].id)' - SvcActiveCount(events[i].id)
  /\ \A i \in 1..Len(Event) :
       Event'[i].currentAttendees - Event[i].currentAttendees
         = DbActiveCount(Event[i].id)' - DbActiveCount(Event[i].id)

cancelEffectInRoutes ==
  \A r \in DOMAIN req :
    /\ (/\ req[r].op = "delete" /\ req[r].pc = "begin" /\ req'[r] # req[r]
        /\ DbActive(req[r].user, req[r].event) # {})
       => req'[r].pc = "save"
    /\ (req[r].op = "delete" /\ answered(r) /\ req'[r].status = 200)
       => /\ \E k \in DbActive(req[r].user, req[r].event) :
               RSVP' = [RSVP EXCEPT ![k].status = "cancelled"]
          /\ countersMoved(Event, Event', req[r].event, -1)

knownInService(e) == \E i \in 1..Len(events) : events[i].id = e

pastInService(e) == \E i \in 1..Len(events) : events[i].id = e /\ events[i].date <= now

knownInRoutes(e) == \E i \in 1..Len(Event) : Event[i].id = e

pastInRoutes(e) == \E i \in 1..Len(Event) : Event[i].id = e /\ Event[i].date <= now

eligibilityInService ==
  \A u \in Users, e \in EventIds :
    /\ ~knownInService(e) =>
         createRSVP(e, u) = [events |-> events, rsvps |-> rsvps, result |-> "Event not found"]
    /\ pastInService(e) =>
         createRSVP(e, u) = [events |-> events, rsvps |-> rsvps,
                             result |-> "Cannot RSVP to past events"]

eligibilityInRoutes ==
  \A r \in DOMAIN req :
    (req[r].op = "post" /\ req[r].pc = "begin" /\ req'[r] # req[r]) =>
      /\ ~knownInRoutes(req[r].event) =>
           /\ req'[r].pc = "done" /\ req'[r].status = 404
           /\ req'[r].message = "Event not found"
           /\ Event' = Event /\ RSVP' = RSVP
      /\ pastInRoutes(req[r].event) =>
           /\ req'[r].pc = "done" /\ req'[r].status = 400
           /\ req'[r].message = "Cannot RSVP to past events"
           /\ Event' = Event /\ RSVP' = RSVP

\* C11: eligibility. An RSVP for an event that does not exist is answered
\* 'Event not found', one for an event whose date has come is answered
\* 'Cannot RSVP to past events'; neither changes a counter or a record,
\* whatever room the event has.
C11_Eligibility == []eligibilityInService /\ [][eligibilityInRoutes]_vars

\* an RSVP for a past event with room, by a user who holds none, was refused
C11_Witness ==
  \E r \in DOMAIN req :
    /\ req[r].pc = "done" /\ req[r].message = "Cannot RSVP to past events"
    /\ DbActive(req[r].user, req[r].event) = {}
    /\ \E i \in 1..Len(Event) : /\ Event[i].id = req[r].event
                                 /\ Event[i].currentAttendees < Event[i].capacity

\* -------------------------------------------------------------- slot reuse
\* Of the RSVPs that filled the event one, and only one, was cancelled and
\* none was added since: the records are as many as the places, one is
\* 'cancelled', the counter is one below the capacity.
freedInService(e) ==
  \E i \in 1..Len(events) :
    /\ events[i].id = e /\ events[i].date > now
    /\ events[i].currentAttendees = events[i].capacity - 1
    /\ Cardinality({k \in 1..Len(rsvps) : rsvps[k].eventId = e}) = events[i].capacity
    /\ SvcActiveCount(e) = events[i].capacity - 1

freedInRoutes(e) ==
  \E i \in 1..Len(Event) :
    /\ Event[i].id = e /\ Event[i].date > now
    /\ Event[i].currentAttendees = Event[i].capacity - 1
    /\ Cardinality({k \in 1..Len(RSVP) : RSVP[k].event = e}) = Event[i].capacity
    /\ DbActiveCount(e) = Event[i].capacity - 1

reuseInService ==
  \A u \in Users :
    (freedInService(FirstNewEventId) /\ SvcActive(u, FirstNewEventId) = {}) =>
      createRSVP(FirstNewEventId, u).result = "RSVP successful"

reuseInRoutes ==
  \A r \in DOMAIN req :
    (/\ req[r].op = "post" /\ answered(r)
     /\ freedInRoutes(req[r].event)
     /\ DbActive(req[r].user, req[r].event) = {})
    => req'[r].status = 201

\* C12: slot reuse. An event was at capacity and one of its RSVPs was
\* cancelled; the next RSVP for it by a user who holds none there, with no
\* other RSVP admitted in between, succeeds.
C12_SlotReuse == []reuseInService /\ [][reuseInRoutes]_vars

\* ------------------------------------------------------ counter not below 0
\* C13: non-negative counter. In every reachable state every event, of the
\* services and of the Event collection, has currentAttendees >= 0.
C13_NonNegativeCounter ==
  /\ \A i \in 1..Len(events) : events[i].currentAttendees >= 0
  /\ \A i \in 1..Len(Event) : Event[i].currentAttendees >= 0

\* ------------------------------------------------------- records are kept
recordsKept(old, new, idOf(_)) ==
  /\ Len(new) >= Len(old)
  /\ \A i \in 1..Len(old) : idOf(new[i]) = idOf(old[i])

\* C14: RSVP records are never deleted. A record once created stays in the
\* collection, 'attending' or 'cancelled', through every step, the deletion
\* of its event included.
C14_RecordsNeverDeleted ==
  [][recordsKept(rsvps, rsvps', svcPair) /\ recordsKept(RSVP, RSVP', dbPair)]_vars

\* ----------------------------------------------------- who moves a counter
\* the step admits an RSVP for event e: one 'attending' record of e is new
admitsInService(e) ==
  /\ Len(rsvps') = Len(rsvps) + 1
  /\ rsvps'[Len(rsvps')].eventId = e /\ rsvps'[Len(rsvps')].status = "attending"

admitsInRoutes(e) ==
  /\ Len(RSVP') = Len(RSVP) + 1
  /\ RSVP'[Len(RSVP')].event = e /\ RSVP'[Len(RSVP')].status = "attending"

\* the step cancels an RSVP for event e
cancelsInService(e) ==
  \E k \in 1..Len(rsvps) :
    /\ rsvps[k].eventId = e /\ rsvps[k].status = "attending"
    /\ Len(rsvps') >= k /\ rsvps'[k].status = "cancelled"

cancelsInRoutes(e) ==
  \E k \in 1..Len(RSVP) :
    /\ RSVP[k].event = e /\ RSVP[k].status = "attending"
    /\ Len(RSVP') >= k /\ RSVP'[k].status = "cancelled"

counterOwnedInService ==
  \A i \in 1..Len(events), j \in 1..Len(events') :
    (events'[j].id = events[i].id
     /\ events'[j].currentAttendees # events[i].currentAttendees) =>
      \/ /\ events'[j].currentAttendees = events[i].currentAttendees + 1
         /\ admitsInService(events[i].id)
      \/ /\ events'[j].currentAttendees = events[i].currentAttendees - 1
         /\ cancelsInService(events[i].id)

counterOwnedInRoutes ==
  \A i \in 1..Len(Event), j \in 1..Len(Event') :
    (Event'[j].id = Event[i].id
     /\ Event'[j].currentAttendees # Event[i].currentAttendees) =>
      \/ /\ Event'[j].currentAttendees = Event[i].currentAttendees + 1
         /\ admitsInRoutes(Event[i].id)
      \/ /\ Event'[j].currentAttendees = Event[i].currentAttendees - 1
         /\ cancelsInRoutes(Event[i].id)

\* C15: counters are engine-owned. An event's currentAttendees changes only
\* in a step that admits an RSVP for it (+1) or cancels one (-1); no other
\* operation, an event update among them, changes it.
C15_CountersEngineOwned == [][counterOwnedInService /\ counterOwnedInRoutes]_vars

\* ------------------------------------------------------------ the capacity
capacityKept(old, new) ==
  \A i \in 1..Len(old), j \in 1..Len(new) :
    new[j].id = old[i].id => new[j].capacity = old[i].capacity

\* C16: capacity immutability. The capacity an event was created with is
\* the capacity it has in every later state: no step changes it.
C16_CapacityImmutable == [][capacityKept(events, events') /\ capacityKept(Event, Event')]_vars

\* ------------------------------------------------------------ termination
\* C17: no indefinite blocking. Every RSVP or cancel request that a handler
\* has taken up is eventually answered, under every interleaving with the
\* other handler, the scheduling being fair.
C17_EventuallyAnswered ==
  \A r \in Reqs : (req[r].pc \notin {"idle", "done"}) ~> (req[r].pc = "done")

\* both handlers have answered, one a cancel, the other an RSVP that got
\* the place the cancel freed
C17_Witness ==
  /\ \E r \in DOMAIN req : req[r].op = "delete" /\ req[r].pc = "done" /\ req[r].status = 200
  /\ \E r \in DOMAIN req : req[r].op = "post" /\ req[r].pc = "done" /\ req[r].status = 201

\* ------------------------------------------------------- errors are values
\* what the service returns as { success: false, error }
ErrorValues ==
  {"Event not found", "Cannot RSVP to past events", "You have already RSVP'd to this event",
   "Event is at full capacity", "No active RSVP found for this event"}

\* every user id and event id a caller may pass, known or not
AnyCaller == 0..(MaxUsers + 1)

AnyEventId == 0..(MaxEventId + 1)

fullInService(e) ==
  \E i \in 1..Len(events) : events[i].id = e /\ events[i].currentAttendees >= events[i].capacity

\* C18: errors are values. For every user id, event id and state,
\* createRSVP and cancelRSVP return either success or one of the error
\* values, each error under its condition: unknown event, past event,
\* RSVP already held, event full, no RSVP to cancel; and the route passes
\* the value on with a 4xx status, never through its catch (500).
C18_ErrorsAreValues ==
  \A u \in AnyCaller, e \in AnyEventId :
    LET c == createRSVP(e, u).result
        x == cancelRSVP(e, u).result IN
    /\ c = "RSVP successful" \/ c \in ErrorValues
    /\ x = "RSVP cancelled successfully" \/ x \in ErrorValues
    /\ ~knownInService(e) => c = "Event not found"
    /\ pastInService(e) => c = "Cannot RSVP to past events"
    /\ (knownInService(e) /\ ~pastInService(e) /\ SvcActive(u, e) # {})
         => c = "You have already RSVP'd to this event"
    /\ (knownInService(e) /\ ~pastInService(e) /\ SvcActive(u, e) = {} /\ fullInService(e))
         => c = "Event is at full capacity"
    /\ SvcActive(u, e) = {} => x = "No active RSVP found for this event"
    /\ c \in ErrorValues => statusOf(c) \in {400, 404}
    /\ x \in ErrorValues => statusOf(x) \in {400, 404}

\* a state in which one event draws three of the errors: it is full, one
\* user holds an RSVP, another holds none
C18_Witness ==
  \E e \in EventIds, u, v \in Users :
    /\ createRSVP(e, u).result = "You have already RSVP'd to this event"
    /\ createRSVP(e, v).result = "Event is at full capacity"
    /\ cancelRSVP(e, v).result = "No active RSVP found for this event"

\* ------------------------------------------------- the status of a refusal
cancelStatusInService ==
  \A u \in Users, e \in EventIds :
    SvcActive(u, e) = {} => cancelRoute(e, u).status = 404

cancelStatusInRoutes ==
  \A r \in DOMAIN req :
    (/\ req[r].op = "delete" /\ req[r].pc = "done"
     /\ req[r].message = "No active RSVP found for this event")
    => req[r].status = 404

\* C19: cancel status mapping. A cancel that fails because the user holds
\* no 'attending' RSVP for the event is answered with HTTP status 404, by
\* the service-backed route of app.js and by the route of routes/rsvp.js.
C19_CancelNotFoundIs404 == cancelStatusInService /\ cancelStatusInRoutes

\* ------------------------------------------------------ the status query
\* C20: the status query is an exact read. checkRSVPStatus and the status
\* route report hasRSVP exactly when an 'attending' RSVP of (user, event)
\* exists and hand back that record, else null; they compute their reply
\* from the records and write nothing.
C20_StatusIsExactRead ==
  \A u \in AnyCaller, e \in AnyEventId :
    /\ checkRSVPStatus(e, u).hasRSVP <=> SvcActive(u, e) # {}
    /\ checkRSVPStatus(e, u).rsvp = [i \in 1..Cardinality(SvcActive(u, e)) |->
                                       rsvps[CHOOSE k \in SvcActive(u, e) : TRUE]]
    /\ statusRoute(u, e).hasRSVP <=> DbActive(u, e) # {}
    /\ statusRoute(u, e).rsvp = [i \in 1..Cardinality(DbActive(u, e)) |->
                                   RSVP[CHOOSE k \in DbActive(u, e) : TRUE]]

\* one user holds an RSVP, another has only a cancelled one: the query
\* tells them apart
C20_Witness ==
  \E e \in EventIds, u, v \in Users :
    /\ checkRSVPStatus(e, u).hasRSVP
    /\ ~checkRSVPStatus(e, v).hasRSVP
    /\ \E k \in 1..Len(rsvps) : svcPair(rsvps[k]) = <<v, e>> /\ rsvps[k].status = "cancelled"

\* ----------------------------------------------------- the list of a user
\* the ids a list of events names
idsOf(list) == {list[k].id : k \in 1..Len(list)}

attendedInService(u) == {e \in AnyEventId : SvcActive(u, e) # {} /\ knownInService(e)}

attendedInRoutes(u) == {e \in AnyEventId : DbActive(u, e) # {} /\ knownInRoutes(e)}

\* C21: the list of a user is a consistent read. getUserRSVPs and the
\* route 'user/attending' return the events, each once and as it stands,
\* on which the user holds an 'attending' RSVP, and no event on which the
\* user's RSVP is cancelled; they compute the reply and write nothing.
C21_ListIsExactRead ==
  \A u \in AnyCaller :
    /\ idsOf(getUserRSVPs(u)) = attendedInService(u)
    /\ Len(getUserRSVPs(u)) = Cardinality(attendedInService(u))
    /\ \A k \in 1..Len(getUserRSVPs(u)) :
         \E i \in 1..Len(events) : getUserRSVPs(u)[k] = events[i]
    /\ idsOf(attendingRoute(u)) = attendedInRoutes(u)
    /\ Len(attendingRoute(u)) = Cardinality(attendedInRoutes(u))
    /\ \A k \in 1..Len(attendingRoute(u)) :
         \E i \in 1..Len(Event) : attendingRoute(u)[k] = Event[i]

\* a user attends one event and has cancelled on another: the list names
\* the first only
C21_Witness ==
  \E u \in Users, e, f \in EventIds :
    /\ e # f /\ idsOf(getUserRSVPs(u)) = {e}
    /\ \E k \in 1..Len(rsvps) : svcPair(rsvps[k]) = <<u, f>> /\ rsvps[k].status = "cancelled"

\* ------------------------------------------- the order of the two refusals
\* a POST of the routes is at its first step and its user already holds a
\* committed 'attending' RSVP for its event, which is open
duplicatePost(r) ==
  /\ backend = "mongo" /\ req[r].op = "post" /\ req[r].pc = "begin"
  /\ knownInRoutes(req[r].event) /\ ~pastInRoutes(req[r].event)
  /\ DbActive(req[r].user, req[r].event) # {}

\* C22: the duplicate check precedes the capacity check. A create by a
\* user who already holds an 'attending' RSVP on an open event returns
\* "You have already RSVP'd to this event" and leaves events and RSVPs as
\* they are, also when the event is full: it is never answered "Event is
\* at full capacity". The same holds of the POST route.
C22_DuplicateBeforeCapacity ==
  /\ [](\A u \in AnyCaller, e \in AnyEventId :
         (knownInService(e) /\ ~pastInService(e) /\ SvcActive(u, e) # {})
         => /\ createRSVP(e, u).result = "You have already RSVP'd to this event"
            /\ createRSVP(e, u).events = events
            /\ createRSVP(e, u).rsvps = rsvps)
  /\ [][\A r \in DOMAIN req :
          (duplicatePost(r) /\ req'[r] # req[r])
          => /\ req'[r].pc = "done" /\ req'[r].status = 400
             /\ req'[r].message = "You have already RSVP'd to this event"
             /\ Event' = Event /\ RSVP' = RSVP]_vars

\* a full event whose only seat is held by the user who asks again
C22_Witness ==
  \E e \in EventIds, u \in Users :
    /\ fullInService(e) /\ SvcActive(u, e) # {}
    /\ ~pastInService(e)
    /\ createRSVP(e, u).result = "You have already RSVP'd to this event"

\* ------------------------------------------------- a create that fails
\* the RSVPs of the service that are 'attending', by position
attendingInService == {k \in 1..Len(rsvps) : rsvps[k].status = "attending"}

\* the counters of the events of the service
countersInService == [i \in 1..Len(events) |-> events[i].currentAttendees]

\* a create of the service that returns an error leaves the records and the
\* counters it found
failedCreateInService ==
  \A u \in AnyCaller, e \in AnyEventId :
    createRSVP(e, u).result # "RSVP successful"
    => /\ createRSVP(e, u).rsvps = rsvps
       /\ [i \in 1..Len(createRSVP(e, u).events) |->
             createRSVP(e, u).events[i].currentAttendees] = countersInService

\* C23: rollback on failure. If a step of createRSVP fails after the
\* admission is decided, the call returns an error and the state holds
\* neither a new 'attending' RSVP nor an incremented counter; of the
\* routes, a POST that is answered with an error or runs its transaction
\* again has written nothing, and the RSVP and the counter change together.
C23_FailedCreateLeavesNoTrace ==
  /\ []failedCreateInService
  /\ [][\A r \in DOMAIN req :
          (/\ req[r].op = "post" /\ req'[r] # req[r] /\ req[r].pc \notin {"idle", "done"}
           /\ \/ req'[r].pc = "begin"
              \/ req'[r].pc = "done" /\ req'[r].status >= 400)
          => Event' = Event /\ RSVP' = RSVP]_vars
  /\ [][Len(RSVP') > Len(RSVP)
        => \E i \in 1..Len(Event) :
             /\ Event[i].id = RSVP'[Len(RSVP')].event
             /\ Event'[i].currentAttendees = Event[i].currentAttendees + 1]_vars

\* --------------------------------------- a cancel on an event that is gone
\* a cancel of the service on an RSVP whose event was deleted reports no
\* success and leaves the RSVP 'attending'
orphanCancelInService ==
  \A u \in AnyCaller, e \in AnyEventId :
    (SvcActive(u, e) # {} /\ ~knownInService(e))
    => /\ cancelRSVP(e, u).result # "RSVP cancelled successfully"
       /\ cancelRSVP(e, u).rsvps = rsvps

\* C24: cancel rolls back when the slot cannot be released. If the event
\* of an 'attending' RSVP no longer exists, a cancel does not commit the
\* status change: the RSVP is not seen 'cancelled' and the call does not
\* report success, in the service and in the DELETE route.
C24_CancelOnDeletedEvent ==
  /\ []orphanCancelInService
  /\ [][\A r \in DOMAIN req :
          (/\ req[r].op = "delete" /\ req[r].pc = "commit" /\ req'[r] # req[r]
           /\ ~knownInRoutes(req[r].event))
          => /\ RSVP' = RSVP
             /\ ~(req'[r].pc = "done" /\ req'[r].status = 200)]_vars

\* ------------------------------------------------------ the ids of RSVPs
\* C25: RSVP ids are unique. In every reachable state no two RSVPs of the
\* service carry the same id, also when two creates complete without the
\* clock advancing between them.
C25_UniqueRsvpIds ==
  \A k, l \in 1..Len(rsvps) : k # l => rsvps[k].id # rsvps[l].id

\* --------------------------------------------------- one event at a time
\* what an operation on event e leaves alone: the other events and the
\* RSVPs of the other events
othersKeptInService(out, e) ==
  /\ Len(out.events) = Len(events)
  /\ \A i \in 1..Len(events) : events[i].id # e => out.events[i] = events[i]
  /\ Len(out.rsvps) >= Len(rsvps)
  /\ \A k \in 1..Len(rsvps) : rsvps[k].eventId # e => out.rsvps[k] = rsvps[k]
  /\ \A k \in 1..Len(out.rsvps) : k > Len(rsvps) => out.rsvps[k].eventId = e

\* C26: per-event isolation. A create or cancel on one event leaves the
\* counter, the capacity and the RSVPs of every other event unchanged;
\* and a handler working on one event is never sent back to run its
\* transaction again, nor touched in any way, by a handler working on
\* another event.
C26_PerEventIsolation ==
  /\ [](\A u \in AnyCaller, e \in AnyEventId :
         /\ othersKeptInService(createRSVP(e, u), e)
         /\ othersKeptInService(cancelRSVP(e, u), e))
  /\ [][\A r \in DOMAIN req :
          (req[r].pc = "commit" /\ req'[r].pc = "done")
          => /\ Len(Event') = Len(Event)
             /\ \A i \in 1..Len(Event) :
                  Event[i].id # req[r].event => Event'[i] = Event[i]
             /\ \A k \in 1..Len(RSVP) :
                  RSVP[k].event # req[r].event => RSVP'[k] = RSVP[k]
             /\ \A k \in 1..Len(RSVP') :
                  k > Len(RSVP) => RSVP'[k].event = req[r].event
             /\ \A q \in DOMAIN req \ {r} :
                  req[q].event # req[r].event => req'[q] = req[q]]_vars
  /\ [][\A r \in DOMAIN req :
          (/\ req[r].pc \in {"save", "update", "commit"}
           /\ \A q \in DOMAIN req \ {r} : req[q].event # req[r].event)
          => req'[r].pc # "begin"]_vars

\* a POST on one event commits while a POST on the other event stands
\* between its own write and its commit
C26_Witness ==
  \E r, q \in DOMAIN req :
    /\ req[r].op = "post" /\ req[r].pc = "done" /\ req[r].status = 201
    /\ req[q].op = "post" /\ req[q].pc \in {"update", "commit"}
    /\ req[q].event # req[r].event
    /\ DbActive(req[r].user, req[r].event) # {}

\* ------------------------------------------------- the list of attendees
\* how often user u is listed among the attendees of an event of the service
timesListed(event, u) ==
  Cardinality({k \in 1..Len(event.attendees) : event.attendees[k] = u})

\* C27: the attendees list mirrors the 'attending' RSVPs. After any
\* sequence of creates and cancels, a user id is in the attendees list of
\* an existing event exactly when that user holds an 'attending' RSVP for
\* the event, and it is there at most once.
C27_AttendeesMirrorRsvps ==
  /\ \A i \in 1..Len(events), u \in AnyUser :
       timesListed(events[i], u) = IF SvcActive(u, events[i].id) # {} THEN 1 ELSE 0
  /\ \A i \in 1..Len(Event), u \in AnyUser :
       u \in Event[i].attendees <=> DbActive(u, Event[i].id) # {}

\* on one event, one user is listed and attending, another has cancelled
\* and is listed no more
C27_Witness ==
  \E i \in 1..Len(events), u, v \in Users :
    /\ timesListed(events[i], u) = 1 /\ SvcActive(u, events[i].id) # {}
    /\ timesListed(events[i], v) = 0
    /\ \E k \in 1..Len(rsvps) :
         svcPair(rsvps[k]) = <<v, events[i].id>> /\ rsvps[k].status = "cancelled"

\* ------------------------------------------- capacity against the counter
\* the bodies of an update the claim ranges over: a capacity, a counter, or
\* a list of attendees
AnyUpdate ==
  Updates \cup {setCapacity(0), setAttendeeList(<<>>)}
          \cup {setAttendees(n) : n \in 0..(MaxCapacity + 1)}

\* C28: an update never leaves capacity below the counter. For every
\* body of an update, updateEvent either rejects the update or leaves the
\* event with capacity >= currentAttendees; the PUT route likewise.
C28_UpdateKeepsCapacityAboveCount ==
  /\ [](\A e \in AnyEventId, d \in AnyUpdate, u \in Users :
         updateEvent(e, d, u).result = "Event updated successfully"
         => \A i \in 1..Len(updateEvent(e, d, u).events) :
              updateEvent(e, d, u).events[i].id = e
              => updateEvent(e, d, u).events[i].capacity
                   >= updateEvent(e, d, u).events[i].currentAttendees)
  /\ [][\A r \in DOMAIN req :
          (req[r].op = "put" /\ req[r].pc # "done" /\ req'[r].pc = "done"
           /\ req'[r].status = 200)
          => \A i \in 1..Len(Event') :
               Event'[i].id = req[r].event
               => Event'[i].capacity >= Event'[i].currentAttendees]_vars

\* ------------------------------------------------ who may change an event
\* u is not the creator of the existing event e
strangerInService(u, e) ==
  \E i \in 1..Len(events) : events[i].id = e /\ events[i].creator # u

strangerInRoutes(u, e) ==
  \E i \in 1..Len(Event) : Event[i].id = e /\ Event[i].creator # u

\* C29: only the creator changes an event. updateEvent and deleteEvent
\* called by a user who is not the creator of the event return 'Not
\* authorized to update / delete this event' and leave the list of events
\* and every field of every event as they were; the PUT and DELETE routes
\* answer such a caller 403 and write nothing.
C29_CreatorOnlyMutation ==
  /\ [](\A e \in AnyEventId, u \in AnyCaller :
         strangerInService(u, e)
         => /\ \A d \in AnyUpdate :
                 /\ updateEvent(e, d, u).result = "Not authorized to update this event"
                 /\ updateEvent(e, d, u).events = events
            /\ deleteEvent(e, u).result = "Not authorized to delete this event"
            /\ deleteEvent(e, u).events = events)
  /\ [][\A r \in DOMAIN req :
          (/\ req[r].op \in {"put", "remove"} /\ req[r].pc \notin {"idle", "done"}
           /\ req'[r] # req[r]
           /\ strangerInRoutes(req[r].user, req[r].event))
          => /\ req'[r].pc = "done" /\ req'[r].status = 403
             /\ req'[r].message = IF req[r].op = "put"
                                  THEN "Not authorized to update this event"
                                  ELSE "Not authorized to delete this event"
             /\ Event' = Event /\ RSVP' = RSVP]_vars

\* an event with RSVPs on it that its creator can update and delete and
\* another user can not
C29_Witness ==
  \E e \in EventIds, u, v \in Users :
    /\ updateEvent(e, setCapacity(MaxCapacity + 1), u).result = "Event updated successfully"
    /\ deleteEvent(e, u).result = "Event deleted successfully"
    /\ updateEvent(e, setCapacity(MaxCapacity + 1), v).result
         = "Not authorized to update this event"
    /\ deleteEvent(e, v).result = "Not authorized to delete this event"
    /\ SvcActive(v, e) # {}

\* --------------------------------------------- RSVPs of a deleted event
\* C30: deleting an event leaves no RSVP behind. Once the DELETE route of
\* routes/events.js has answered with success, no RSVP that refers to the
\* deleted event exists, whatever RSVP requests for that event were in
\* flight while the route ran.
C30_NoRsvpOfDeletedEvent ==
  \A r \in DOMAIN req :
    (req[r].op = "remove" /\ req[r].pc = "done" /\ req[r].status = 200)
    => \A k \in 1..Len(RSVP) : RSVP[k].event # req[r].event

====
